---- MODULE Spec2Model ----
(***************************************************************************)
(* Model of app/logic/intsteps.py: the rule-derivation engine (intsteps),  *)
(* the manual evaluator (intmanually) and the step printer                 *)
(* (IntegralPrinter / HTMLPrinter / print_html_steps).                     *)
(*                                                                         *)
(* Expressions are sympy terms: a record [func, name, val, args] where     *)
(* func is the term's class, args its ordered argument list, name the name *)
(* of a Symbol and val the value of an Integer.  Python's None and the     *)
(* exceptions an evaluation can raise are values of the same shape, so     *)
(* that every result can be compared with every other.                     *)
(***************************************************************************)
EXTENDS Integers, Sequences, FiniteSets

\* Largest Integer literal of the input expressions.
MaxInt == 2
\* Largest number of arguments of a sum or product built from leaves.
MaxArgs == 3

----------------------------------------------------------------------------
(* sympy terms                                                             *)

Mk(f, as) == [func |-> f, name |-> "", val |-> 0, args |-> as]
Integer(n) == [func |-> "Integer", name |-> "", val |-> n, args |-> <<>>]
Symbol(s) == [func |-> "Symbol", name |-> s, val |-> 0, args |-> <<>>]
Pow(b, e) == Mk("Pow", <<b, e>>)
Add(as) == Mk("Add", as)
Mul(as) == Mk("Mul", as)
Sin(a) == Mk("sin", <<a>>)
Integral(f, s) == Mk("Integral", <<f, s>>)
Equals(l, r) == Mk("Equals", <<l, r>>)
Derivative(f, s) == Mk("Derivative", <<f, s>>)

\* Python's None, the class object integrand.func, and the outcomes of an
\* evaluation that is not a term.
None == Mk("None", <<>>)
ClassOf(e) == Mk("class " \o e.func, <<>>)
TypeError == Mk("TypeError", <<>>)
ZeroDivisionError == Mk("ZeroDivisionError", <<>>)
Zoo == Mk("zoo", <<>>)

IsRaised(r) == r.func \in {"TypeError", "ZeroDivisionError"}
IsExpr(r) == r.func \notin {"None", "TypeError", "ZeroDivisionError", "zoo"}

x == Symbol("x")
y == Symbol("y")
Symbols == {x, y}

RECURSIVE FreeSymbols(_)
FreeSymbols(e) ==
    IF e.func = "Symbol" THEN {e}
    ELSE UNION {FreeSymbols(e.args[i]) : i \in 1..Len(e.args)}

----------------------------------------------------------------------------
(* sympy.simplify as a normal form: a set of monomials, each a rational    *)
(* coefficient p/q (q > 0, lowest terms, p # 0) times a product of powers  *)
(* of atoms, k being the set of <<atom, power>> pairs with power # 0.  An  *)
(* atom is a Symbol or a term that is not polynomial (sin(x), 2**x).       *)

Abs(n) == IF n < 0 THEN -n ELSE n

RECURSIVE Gcd(_, _)
Gcd(a, b) == IF b = 0 THEN a ELSE Gcd(b, a % b)

RECURSIVE IntPow(_, _)
IntPow(b, n) == IF n = 0 THEN 1 ELSE b * IntPow(b, n - 1)

\* p/q in lowest terms with a positive denominator (q # 0).
Norm(p, q) ==
    LET g == Gcd(Abs(p), Abs(q))
        sg == IF q < 0 THEN -1 ELSE 1
    IN  << sg * (p \div g), sg * (q \div g) >>

Mono(k, c) == [k |-> k, p |-> c[1], q |-> c[2]]

KeyPower(k, a) == IF \E t \in k : t[1] = a
                  THEN (CHOOSE t \in k : t[1] = a)[2] ELSE 0

KeyMul(k1, k2) ==
    LET atoms == {t[1] : t \in k1 \cup k2}
    IN  {<<a, KeyPower(k1, a) + KeyPower(k2, a)>> :
            a \in {b \in atoms : KeyPower(k1, b) + KeyPower(k2, b) # 0}}

KeyPow(k, n) == {<<t[1], t[2] * n>> : t \in {u \in k : u[2] * n # 0}}

Coef(A, k) == IF \E m \in A : m.k = k
              THEN LET m == CHOOSE mm \in A : mm.k = k IN <<m.p, m.q>>
              ELSE <<0, 1>>

NFAdd(A, B) ==
    LET keys == {m.k : m \in A \cup B}
        sum(k) == LET a == Coef(A, k)
                      b == Coef(B, k)
                  IN  Norm(a[1] * b[2] + b[1] * a[2], a[2] * b[2])
    IN  {Mono(k, sum(k)) : k \in {kk \in keys : sum(kk)[1] # 0}}

MonoMul(a, b) == {Mono(KeyMul(a.k, b.k), Norm(a.p * b.p, a.q * b.q))}

RECURSIVE NFSumPairs(_)
NFSumPairs(P) ==
    IF P = {} THEN {}
    ELSE LET pr == CHOOSE p \in P : TRUE
         IN  NFAdd(MonoMul(pr[1], pr[2]), NFSumPairs(P \ {pr}))

NFMul(A, B) == NFSumPairs(A \X B)

NFOne == {Mono({}, <<1, 1>>)}

RECURSIVE NFPowNat(_, _)
NFPowNat(A, n) == IF n = 0 THEN NFOne ELSE NFMul(A, NFPowNat(A, n - 1))

Opaque(e) == {Mono({<<e, 1>>}, <<1, 1>>)}

RECURSIVE NF(_)
RECURSIVE NFFold(_, _, _)
NFFold(f, as, i) ==
    IF i > Len(as) THEN (IF f = "Add" THEN {} ELSE NFOne)
    ELSE IF f = "Add" THEN NFAdd(NF(as[i]), NFFold(f, as, i + 1))
    ELSE NFMul(NF(as[i]), NFFold(f, as, i + 1))

NF(e) ==
    CASE e.func = "Integer" -> IF e.val = 0 THEN {} ELSE {Mono({}, <<e.val, 1>>)}
      [] e.func = "Symbol" -> Opaque(e)
      [] e.func \in {"Add", "Mul"} -> NFFold(e.func, e.args, 1)
      [] e.func = "Pow" /\ e.args[2].func = "Integer" ->
            LET b == NF(e.args[1])
                n == e.args[2].val
            IN  IF n >= 0 THEN NFPowNat(b, n)
                ELSE IF Cardinality(b) = 1
                THEN LET m == CHOOSE mm \in b : TRUE
                     IN  {Mono(KeyPow(m.k, n),
                               Norm(IntPow(m.q, -n), IntPow(m.p, -n)))}
                ELSE Opaque(e)
      [] OTHER -> Opaque(e)

\* d/ds of one monomial with respect to one of its atoms (product rule).
DiffAtom(m, t, s) ==
    IF t[1] = s
    THEN {Mono(KeyMul(m.k, {<<s, -1>>}), Norm(m.p * t[2], m.q))}
    ELSE IF s \notin FreeSymbols(t[1]) THEN {}
    ELSE {Mono(KeyMul(KeyMul(m.k, {<<t[1], -1>>}), {<<Derivative(t[1], s), 1>>}),
               Norm(m.p * t[2], m.q))}

RECURSIVE DiffSum(_, _)
DiffSum(P, s) ==
    IF P = {} THEN {}
    ELSE LET pr == CHOOSE p \in P : TRUE
         IN  NFAdd(DiffAtom(pr[1], pr[2], s), DiffSum(P \ {pr}, s))

\* simplify(diff(A, s)) on normal forms.
DiffNF(A, s) == DiffSum({<<m, t>> \in A \X (UNION {m.k : m \in A}) : t \in m.k}, s)

\* expr.is_constant(symbol): free of the symbol, or its simplified
\* derivative with respect to the symbol vanishes.
is_constant(e, symbol) ==
    symbol \notin FreeSymbols(e) \/ DiffNF(NF(e), symbol) = {}

----------------------------------------------------------------------------
(* The input expressions.  Integer literals are -1 and 2..MaxInt; sympy    *)
(* evaluates x**0, x**1, 0*x and 1*x away when a term is built, so 0 and 1 *)
(* never occur as a literal exponent or factor.  A power of a Symbol has a *)
(* literal exponent or the Symbol itself as exponent.                       *)

Ints == {-1} \cup (2..MaxInt)
ILeaves == {Integer(n) : n \in Ints}
Leaves == ILeaves \cup Symbols
Pows == {Pow(s, n) : s \in Symbols, n \in ILeaves}
        \cup {Pow(s, s) : s \in Symbols}
        \cup {Pow(n, s) : n \in ILeaves, s \in Symbols}
Base == Leaves \cup Pows \cup {Sin(s) : s \in Symbols}
Small == {Integer(2), x, y}
Core == Small \cup {Pow(x, Integer(-1)), Sin(x)}

RECURSIVE Tuples(_, _)
Tuples(S, n) == IF n = 0 THEN {<<>>}
                ELSE {Append(t, e) : t \in Tuples(S, n - 1), e \in S}

Binary(S) == {Mk(f, <<a, b>>) : f \in {"Add", "Mul"}, a \in S, b \in S}
Wide == {Mk(f, t) : f \in {"Add", "Mul"},
                    t \in UNION {Tuples(Small, n) : n \in 3..MaxArgs}}
Nested == {Mk(f, <<a, b>>) : f \in {"Add", "Mul"}, a \in Small, b \in Binary(Core)}
          \cup {Mk(f, <<b, a>>) : f \in {"Add", "Mul"}, a \in Small, b \in Binary(Core)}
Expressions == Base \cup Binary(Base) \cup Wide \cup Nested

----------------------------------------------------------------------------
(* Rule tree nodes: the namedtuples of lines 6-18.  A node is a record     *)
(* with every payload field; the fields a rule does not have are None (an  *)
(* empty sequence for substeps; substep holds the one sub-rule, if any).   *)

Rule(name) == [tag |-> name, constant |-> None, other |-> None, base |-> None,
               exp |-> None, substeps |-> <<>>, substep |-> <<>>,
               context |-> None, symbol |-> None]

ConstantRule(constant, context, symbol) ==
    [Rule("ConstantRule") EXCEPT !.constant = constant, !.context = context,
                                 !.symbol = symbol]
ConstantTimesRule(constant, other, substep, context, symbol) ==
    [Rule("ConstantTimesRule") EXCEPT !.constant = constant, !.other = other,
                                      !.substep = <<substep>>,
                                      !.context = context, !.symbol = symbol]
PowerRule(base, exp, context, symbol) ==
    [Rule("PowerRule") EXCEPT !.base = base, !.exp = exp, !.context = context,
                              !.symbol = symbol]
AddRule(substeps, context, symbol) ==
    [Rule("AddRule") EXCEPT !.substeps = substeps, !.context = context,
                            !.symbol = symbol]
DontKnowRule(context, symbol) ==
    [Rule("DontKnowRule") EXCEPT !.context = context, !.symbol = symbol]

\* No rule: self.rule before the printer is constructed.
NoRule == Rule("")

RuleTags == {"ConstantRule", "ConstantTimesRule", "PowerRule", "AddRule",
             "DontKnowRule"}

----------------------------------------------------------------------------
(* intsteps (lines 55-86)                                                  *)

RECURSIVE intsteps(_, _)

\* line 59
intsteps_Constant(integrand, symbol) ==
    ConstantRule(integrand, ClassOf(integrand), symbol)

\* line 62
intsteps_Symbol(integrand, symbol) ==
    PowerRule(integrand, Integer(1), integrand, symbol)

\* lines 64-67, falling through to line 86
intsteps_Pow(integrand, symbol) ==
    LET base == integrand.args[1]
        exp == integrand.args[2]
    IN  IF is_constant(exp, symbol) /\ base.func = "Symbol"
        THEN PowerRule(base, exp, integrand, symbol)
        ELSE DontKnowRule(integrand, symbol)

intsteps_Add_Reversed(integrand, symbol) ==
    AddRule([i \in 1..Len(integrand.args) |->
                intsteps(integrand.args[Len(integrand.args) + 1 - i], symbol)],
            integrand, symbol)

\* lines 69-71
intsteps_Add(integrand, symbol) ==
    AddRule([i \in 1..Len(integrand.args) |-> intsteps(integrand.args[i], symbol)],
            integrand, symbol)

intsteps_Mul_LeftOnly(integrand, symbol) ==
    LET args == integrand.args
    IN  IF Len(args) = 2 /\ is_constant(args[1], symbol)
        THEN ConstantTimesRule(args[1], args[2], intsteps(args[2], symbol),
                               integrand, symbol)
        ELSE IF Len(args) = 2 /\ is_constant(args[2], symbol)
        THEN ConstantTimesRule(args[1], args[2], intsteps(args[2], symbol),
                               integrand, symbol)
        ELSE DontKnowRule(integrand, symbol)

\* lines 73-84, falling through to line 86
intsteps_Mul(integrand, symbol) ==
    LET args == integrand.args
    IN  IF Len(args) = 2 /\ is_constant(args[1], symbol)
        THEN ConstantTimesRule(args[1], args[2], intsteps(args[2], symbol),
                               integrand, symbol)
        ELSE IF Len(args) = 2 /\ is_constant(args[2], symbol)
        THEN ConstantTimesRule(args[2], args[1], intsteps(args[1], symbol),
                               integrand, symbol)
        ELSE DontKnowRule(integrand, symbol)

intsteps_ShapeFirst(integrand, symbol) ==
    LET func == integrand.func
    IN  IF func = "Symbol" THEN intsteps_Symbol(integrand, symbol)
        ELSE IF func = "Pow" THEN intsteps_Pow(integrand, symbol)
        ELSE IF func = "Add" THEN intsteps_Add(integrand, symbol)
        ELSE IF func = "Mul" THEN intsteps_Mul(integrand, symbol)
        ELSE IF is_constant(integrand, symbol)
        THEN intsteps_Constant(integrand, symbol)
        ELSE DontKnowRule(integrand, symbol)

intsteps_NoFallback(integrand, symbol) ==
    LET func == integrand.func
    IN  IF is_constant(integrand, symbol) THEN intsteps_Constant(integrand, symbol)
        ELSE IF func = "Symbol" THEN intsteps_Symbol(integrand, symbol)
        ELSE IF func = "Pow" THEN intsteps_Pow(integrand, symbol)
        ELSE IF func = "Add" THEN intsteps_Add(integrand, symbol)
        ELSE IF func = "Mul" THEN intsteps_Mul(integrand, symbol)
        ELSE PowerRule(integrand, Integer(1), integrand, symbol)

intsteps(integrand, symbol) ==
    LET func == integrand.func
    IN  IF is_constant(integrand, symbol) THEN intsteps_Constant(integrand, symbol)
        ELSE IF func = "Symbol" THEN intsteps_Symbol(integrand, symbol)
        ELSE IF func = "Pow" THEN intsteps_Pow(integrand, symbol)
        ELSE IF func = "Add" THEN intsteps_Add(integrand, symbol)
        ELSE IF func = "Mul" THEN intsteps_Mul(integrand, symbol)
        ELSE DontKnowRule(integrand, symbol)

----------------------------------------------------------------------------
(* State                                                                    *)

VARIABLES
    function,      \* print_html_steps' first argument
    symbol,        \* print_html_steps' second argument
    zeroDivision,  \* what the algebra library does on 1/0: "raise" or "zoo"
    rule,          \* self.rule, the tree intsteps returned
    lines,         \* self.lines, the output accumulator
    level,         \* self.level, the nesting level
    stack,         \* the active print_rule calls, outermost first
    pc,            \* where print_html_steps stands
    raised,        \* the exception that left print_html_steps, or None
    document       \* what print_html_steps returned

vars == <<function, symbol, zeroDivision, rule, lines, level, stack, pc,
          raised, document>>

----------------------------------------------------------------------------
(* intmanually (lines 89-102).  Python 2: map builds the whole list of     *)
(* substep results before sum adds them up, starting from 0.                *)

RECURSIVE intmanually(_)

\* rule.exp + 1, evaluated by the library when exp is a literal
PlusOne(exp) == IF exp.func = "Integer" THEN Integer(exp.val + 1)
                ELSE Add(<<exp, Integer(1)>>)

\* line 91
intmanually_Constant(r) == Mul(<<r.constant, r.symbol>>)

\* line 94
intmanually_Power(r) ==
    LET d == PlusOne(r.exp)
    IN  IF d = Integer(0)
        THEN (IF zeroDivision = "raise" THEN ZeroDivisionError ELSE Zoo)
        ELSE Mul(<<Pow(r.base, d), Pow(d, Integer(-1))>>)

\* line 97
intmanually_Add(r) ==
    LET res == [i \in 1..Len(r.substeps) |-> intmanually(r.substeps[i])]
        n == Len(res)
    IN  IF \E i \in 1..n : IsRaised(res[i])
        THEN res[CHOOSE i \in 1..n : IsRaised(res[i])
                                     /\ \A j \in 1..(i - 1) : ~IsRaised(res[j])]
        ELSE IF \E i \in 1..n : res[i] = None THEN TypeError
        ELSE IF \E i \in 1..n : res[i] = Zoo THEN Zoo
        ELSE Add(res)

\* line 100
intmanually_ConstantTimes(r) ==
    LET res == intmanually(r.substep[1])
    IN  IF IsRaised(res) THEN res
        ELSE IF res = None THEN TypeError
        ELSE IF res = Zoo THEN Zoo
        ELSE Mul(<<r.constant, res>>)

intmanually(r) ==
    IF r.tag = "ConstantRule" THEN intmanually_Constant(r)
    ELSE IF r.tag = "PowerRule" THEN intmanually_Power(r)
    ELSE IF r.tag = "AddRule" THEN intmanually_Add(r)
    ELSE IF r.tag = "ConstantTimesRule" THEN intmanually_ConstantTimes(r)
    ELSE None

----------------------------------------------------------------------------
(* The printer's collaborator stepprinter.HTMLPrinter: the document is an  *)
(* ordered sequence of entries, each with the nesting level it was         *)
(* appended at.  by is the rule whose print method appended the entry.     *)

Entry(lv, kind, text, math, by) ==
    [level |-> lv, kind |-> kind, text |-> text, math |-> math, by |-> by]

\* stepprinter.HTMLPrinter.__init__
InitialLines == << Entry(0, "<ol>", "", None, NoRule) >>

\* self.append(text), self.append(self.format_math_display(math)) and
\* self.append("...{}".format(self.format_math(math)))
Text(lv, text, by) == Entry(lv, "text", text, None, by)
MathDisplay(lv, math, by) == Entry(lv, "math", "", math, by)
TextMath(lv, text, math, by) == Entry(lv, "text", text, math, by)

\* with self.new_step():
StepOpen(lv, by) == Entry(lv, "<li>", "", None, by)
StepClose(lv, by) == Entry(lv, "</li>", "", None, by)

\* with self.new_level():
LevelEnter(lv) == lv + 1
LevelExit(lv) == lv - 1
LevelOpen(lv, by) == Entry(lv, "<ol>", "", None, by)
LevelClose(lv, by) == Entry(lv, "</ol>", "", None, by)

\* One active call print_rule(r): where it stands, the index of the substep
\* print_Add is at, and the level at the call.
Frame(r, lv) == [rule |-> r, at |-> "call", i |-> 0, entry |-> lv]

Top == stack[Len(stack)]
SetTop(f) == [stack EXCEPT ![Len(stack)] = f]

\* An exception leaves print_html_steps: every enclosing with block is
\* left, so the level is back at its initial value; nothing is returned.
Raise(exc, ls) ==
    /\ raised' = exc
    /\ pc' = "raised"
    /\ lines' = ls
    /\ level' = 0
    /\ stack' = <<>>
    /\ UNCHANGED <<function, symbol, zeroDivision, rule, document>>

----------------------------------------------------------------------------
(* Init: a call print_html_steps(function, symbol) is about to be made.    *)

Init ==
    /\ function \in Expressions
    /\ symbol \in Symbols
    /\ zeroDivision \in {"raise", "zoo"}
    /\ rule = NoRule
    /\ lines = <<>>
    /\ level = 0
    /\ stack = <<>>
    /\ pc = "start"
    /\ raised = None
    /\ document = <<>>

\* line 214 up to the call self.print_rule(rule) of line 107
Construct ==
    /\ pc = "start"
    /\ rule' = intsteps(function, symbol)
    /\ lines' = InitialLines
    /\ level' = 0
    /\ stack' = << Frame(rule', 0) >>
    /\ pc' = "print"
    /\ UNCHANGED <<function, symbol, zeroDivision, raised, document>>

Calling(tag) ==
    /\ pc = "print"
    /\ stack # <<>>
    /\ Top.rule.tag = tag
    /\ Top.at = "call"

Returning(ls) ==
    /\ lines' = ls
    /\ stack' = SetTop([Top EXCEPT !.at = "return"])
    /\ UNCHANGED <<function, symbol, zeroDivision, rule, level, pc, raised,
                   document>>

\* lines 133-140
print_Constant ==
    /\ Calling("ConstantRule")
    /\ LET r == Top.rule
           ls == lines \o << StepOpen(level, r),
                    Text(level, "The integral of a constant is the constant times the variable of integration:", r) >>
           res == intmanually(r)
       IN  IF IsRaised(res) THEN Raise(res, ls)
           ELSE Returning(ls \o
                  << MathDisplay(level, Equals(Integral(r.constant, r.symbol), res), r),
                     StepClose(level, r) >>)

\* lines 156-166
print_Power ==
    /\ Calling("PowerRule")
    /\ LET r == Top.rule
           ls == lines \o << StepOpen(level, r),
                    Text(level, "The integral of x**n is x**(n + 1)/(n + 1):", r) >>
           res == intmanually(r)
       IN  IF IsRaised(res) THEN Raise(res, ls)
           ELSE Returning(ls \o
                  << MathDisplay(level, Equals(Integral(r.context, r.symbol), res), r),
                     StepClose(level, r) >>)

\* lines 177-181
print_DontKnow ==
    /\ Calling("DontKnowRule")
    /\ LET r == Top.rule
           ls == lines \o << StepOpen(level, r),
                    Text(level, "Don't know the steps in finding this integral.", r),
                    Text(level, "But the integral is", r) >>
           res == intmanually(r)
       IN  IF IsRaised(res) THEN Raise(res, ls)
           ELSE Returning(ls \o << MathDisplay(level, res, r), StepClose(level, r) >>)

\* lines 142-152: up to the call self.print_rule(rule.substep)
print_ConstantTimes ==
    /\ Calling("ConstantTimesRule")
    /\ LET r == Top.rule
       IN  /\ lines' = lines \o
                << StepOpen(level, r),
                   Text(level, "The integral of a constant times a function is the constant times the integral of the function:", r),
                   MathDisplay(level,
                       Equals(Integral(r.context, r.symbol),
                              Mul(<<r.constant, Integral(r.other, r.symbol)>>)), r),
                   LevelOpen(LevelEnter(level), r) >>
           /\ level' = LevelEnter(level)
           /\ stack' = Append(SetTop([Top EXCEPT !.at = "substep"]),
                              Frame(r.substep[1], level'))
    /\ UNCHANGED <<function, symbol, zeroDivision, rule, pc, raised, document>>

\* lines 151-154: from the return of self.print_rule(rule.substep)
print_ConstantTimes_result ==
    /\ pc = "print"
    /\ stack # <<>>
    /\ Top.rule.tag = "ConstantTimesRule"
    /\ Top.at = "substep"
    /\ LET r == Top.rule
           lv == LevelExit(level)
           ls == lines \o << LevelClose(level, r) >>
           res == intmanually(r)
       IN  IF IsRaised(res) THEN Raise(res, ls)
           ELSE /\ lines' = ls \o << TextMath(lv, "So, the result is: {}", res, r),
                                     StepClose(lv, r) >>
                /\ level' = lv
                /\ stack' = SetTop([Top EXCEPT !.at = "return"])
                /\ UNCHANGED <<function, symbol, zeroDivision, rule, pc, raised,
                               document>>

\* lines 168-171: up to the first pass of the loop
print_Add ==
    /\ Calling("AddRule")
    /\ LET r == Top.rule
       IN  /\ lines' = lines \o << StepOpen(level, r),
                                   Text(level, "Integrate term-by-term:", r) >>
           /\ stack' = SetTop([Top EXCEPT !.at = "loop", !.i = 1])
    /\ UNCHANGED <<function, symbol, zeroDivision, rule, level, pc, raised,
                   document>>

InLoop(at) ==
    /\ pc = "print"
    /\ stack # <<>>
    /\ Top.rule.tag = "AddRule"
    /\ Top.at = at

\* lines 171-173: one pass of the loop, up to the call self.print_rule(substep)
print_Add_substep ==
    /\ InLoop("loop")
    /\ Top.i <= Len(Top.rule.substeps)
    /\ LET r == Top.rule
       IN  /\ lines' = lines \o << LevelOpen(LevelEnter(level), r) >>
           /\ level' = LevelEnter(level)
           /\ stack' = Append(SetTop([Top EXCEPT !.at = "substep"]),
                              Frame(r.substeps[Top.i], level'))
    /\ UNCHANGED <<function, symbol, zeroDivision, rule, pc, raised, document>>

print_Add_leave_KeepLevel ==
    /\ InLoop("substep")
    /\ lines' = lines \o << LevelClose(level, Top.rule) >>
    /\ level' = level
    /\ stack' = SetTop([Top EXCEPT !.at = "loop", !.i = Top.i + 1])
    /\ UNCHANGED <<function, symbol, zeroDivision, rule, pc, raised, document>>

\* lines 172-173: from the return of self.print_rule(substep) to the next pass
print_Add_leave ==
    /\ InLoop("substep")
    /\ lines' = lines \o << LevelClose(level, Top.rule) >>
    /\ level' = LevelExit(level)
    /\ stack' = SetTop([Top EXCEPT !.at = "loop", !.i = Top.i + 1])
    /\ UNCHANGED <<function, symbol, zeroDivision, rule, pc, raised, document>>

\* lines 174-175: after the loop
print_Add_result ==
    /\ InLoop("loop")
    /\ Top.i > Len(Top.rule.substeps)
    /\ LET r == Top.rule
           res == intmanually(r)
       IN  IF IsRaised(res) THEN Raise(res, lines)
           ELSE Returning(lines \o << TextMath(level, "The result is: {}", res, r),
                                      StepClose(level, r) >>)

\* print_rule returns (lines 109-131): to its caller's with block, or, for
\* the root, to print_html_steps (line 215).
print_rule_return ==
    /\ pc = "print"
    /\ stack # <<>>
    /\ Top.at = "return"
    /\ stack' = SubSeq(stack, 1, Len(stack) - 1)
    /\ pc' = IF Len(stack) = 1 THEN "finalize" ELSE "print"
    /\ UNCHANGED <<function, symbol, zeroDivision, rule, lines, level, raised,
                   document>>

\* if answer: (line 200)
Truthy(answer) == answer # None /\ (IsExpr(answer) => NF(answer) # {})

\* sympy.simplify(sympy.trigsimp(answer)), as a term of its own: whether
\* it differs from answer is the library's matter.
Simplified(answer) == Mk("simplify", <<answer>>)

\* answer + sympy.Symbol('constant') (line 209)
PlusConstant(answer) ==
    IF answer = None THEN TypeError
    ELSE IF answer = Zoo THEN Zoo
    ELSE Add(<<answer, Symbol("constant")>>)

\* lines 198-211
finalize ==
    /\ pc = "finalize"
    /\ LET answer == intmanually(rule)
       IN  IF IsRaised(answer) THEN Raise(answer, lines)
           ELSE \E changed \in BOOLEAN :
                /\ changed => Truthy(answer) /\ IsExpr(answer)
                /\ LET final == IF changed THEN Simplified(answer) ELSE answer
                       ls == lines \o
                          (IF changed
                           THEN << StepOpen(level, NoRule),
                                   Text(level, "Now simplify:", NoRule),
                                   MathDisplay(level, final, NoRule),
                                   StepClose(level, NoRule) >>
                           ELSE <<>>)
                          \o << StepOpen(level, NoRule),
                                Text(level, "Add the constant of integration:", NoRule) >>
                       sum == PlusConstant(final)
                   IN  IF IsRaised(sum) THEN Raise(sum, ls)
                       ELSE /\ lines' = ls \o << MathDisplay(level, sum, NoRule),
                                                 StepClose(level, NoRule),
                                                 Entry(0, "</ol>", "", None, NoRule) >>
                            /\ document' = lines'
                            /\ pc' = "done"
                            /\ UNCHANGED <<function, symbol, zeroDivision, rule,
                                           level, stack, raised>>

Next ==
    \/ Construct
    \/ print_Constant
    \/ print_Power
    \/ print_DontKnow
    \/ print_ConstantTimes
    \/ print_ConstantTimes_result
    \/ print_Add
    \/ print_Add_substep
    \/ print_Add_leave
    \/ print_Add_result
    \/ print_rule_return
    \/ finalize

Spec == Init /\ [][Next]_vars

----------------------------------------------------------------------------
(* Helpers of the properties                                                *)

Constructed == pc # "start"

\* The calls of intsteps behind node n: <<e, m>> when intsteps was called on
\* e and returned m, following the recursion of lines 70, 79 and 83.
RECURSIVE Calls(_, _)
Calls(e, n) ==
    {<<e, n>>} \cup
    (IF n.tag = "AddRule"
     THEN UNION {Calls(e.args[i], n.substeps[i]) :
                    i \in (1..Len(e.args)) \cap (1..Len(n.substeps))}
     ELSE IF n.tag = "ConstantTimesRule"
     THEN Calls(IF is_constant(e.args[1], symbol) THEN e.args[2] ELSE e.args[1],
                n.substep[1])
     ELSE {})

AllCalls == Calls(function, rule)

RECURSIVE Nodes(_)
Nodes(n) ==
    {n} \cup UNION {Nodes(n.substeps[i]) : i \in 1..Len(n.substeps)}
        \cup UNION {Nodes(n.substep[i]) : i \in 1..Len(n.substep)}

NoUnknown(n) == \A m \in Nodes(n) : m.tag # "DontKnowRule"
NoMinusOnePower(n) ==
    \A m \in Nodes(n) : ~(m.tag = "PowerRule" /\ m.exp = Integer(-1))

\* e matches no technique with respect to s.
NoTechnique(e, s) ==
    /\ ~is_constant(e, s)
    /\ \/ e.func = "Pow" /\ (e.args[1] # s \/ ~is_constant(e.args[2], s))
       \/ e.func = "Mul" /\ Len(e.args) >= 3
       \/ e.func = "Mul" /\ Len(e.args) = 2
            /\ ~is_constant(e.args[1], s) /\ ~is_constant(e.args[2], s)
       \/ e.func \notin {"Integer", "Symbol", "Pow", "Add", "Mul"}

\* The first rule of the fixed order that matches e.
FirstMatch(e, s) ==
    IF is_constant(e, s) THEN "ConstantRule"
    ELSE IF e = s THEN "PowerRule"
    ELSE IF e.func = "Pow" /\ is_constant(e.args[2], s) /\ e.args[1] = s
    THEN "PowerRule"
    ELSE IF e.func = "Add" THEN "AddRule"
    ELSE IF e.func = "Mul" /\ Len(e.args) = 2
            /\ (is_constant(e.args[1], s) \/ is_constant(e.args[2], s))
    THEN "ConstantTimesRule"
    ELSE "DontKnowRule"

\* The entries of the document that open a step one level below lv.
StepsBelow(ls, lv) ==
    LET opens(en) == en.kind = "<li>" /\ en.level = lv + 1
        sel == SelectSeq(ls, opens)
    IN  [i \in 1..Len(sel) |-> sel[i].by]

IsPrefix(a, b) == Len(a) <= Len(b) /\ \A i \in 1..Len(a) : a[i] = b[i]

ConstantText == "Add the constant of integration:"

----------------------------------------------------------------------------
(* Properties                                                               *)

\* C1: for every e whose tree has no DontKnowRule node, the derivative with
\* respect to the symbol of intmanually(intsteps(e, symbol)) simplifies to e.
C1_DerivativeIsIntegrand ==
    (Constructed /\ NoUnknown(rule)) =>
        LET F == intmanually(rule)
        IN  IsExpr(F) /\ DiffNF(NF(F), symbol) = NF(function)

\* C2: intsteps returns a rule node for every expression, and every
\* expression that matches no technique, at the root or at any depth the
\* recursion reaches, is returned as a DontKnowRule node.
C2_TotalWithUnknown ==
    Constructed =>
        \A c \in AllCalls :
            /\ c[2].tag \in RuleTags
            /\ NoTechnique(c[1], symbol) => c[2].tag = "DontKnowRule"

C2_Witness ==
    /\ Constructed
    /\ rule.tag = "AddRule"
    /\ \E i \in 1..Len(rule.substeps) :
          /\ rule.substeps[i].tag = "ConstantTimesRule"
          /\ rule.substeps[i].substep[1].tag = "DontKnowRule"
          /\ NoTechnique(rule.substeps[i].other, symbol)

\* C3: the tag of every node is that of the first matching rule in the
\* order Constant, bare variable, Power, Add, ConstantTimes, Unknown; an
\* expression constant in the symbol is a ConstantRule whatever its shape,
\* and the bare variable is a PowerRule of exponent 1.
C3_FirstMatchWins ==
    Constructed =>
        \A c \in AllCalls :
            /\ c[2].tag = FirstMatch(c[1], symbol)
            /\ is_constant(c[1], symbol) =>
                   c[2].tag = "ConstantRule" /\ c[2].constant = c[1]
            /\ (~is_constant(c[1], symbol) /\ c[1] = symbol) =>
                   c[2].base = symbol /\ c[2].exp = Integer(1)

C3_Witness ==
    /\ Constructed
    /\ rule.tag = "ConstantRule"
    /\ function.func = "Add"
    /\ FreeSymbols(function) # {}
    /\ symbol \notin FreeSymbols(function)

\* C4: a non-constant product of two factors, one of them constant, is a
\* ConstantTimesRule of the constant factor, the other factor and intsteps
\* of the other factor, in either position; in every ConstantTimesRule the
\* other field is not constant and the substep is no ConstantRule.
C4_ConstantTimes ==
    Constructed =>
        /\ \A c \in AllCalls :
              LET e == c[1]
                  n == c[2]
              IN  (/\ e.func = "Mul" /\ Len(e.args) = 2
                   /\ ~is_constant(e, symbol)
                   /\ \E k \in 1..2 : is_constant(e.args[k], symbol)) =>
                     LET k == CHOOSE j \in 1..2 : is_constant(e.args[j], symbol)
                     IN  /\ n.tag = "ConstantTimesRule"
                         /\ n.constant = e.args[k]
                         /\ n.other = e.args[3 - k]
                         /\ ~is_constant(e.args[3 - k], symbol)
                         /\ n.substep = << intsteps(e.args[3 - k], symbol) >>
        /\ \A n \in Nodes(rule) :
              n.tag = "ConstantTimesRule" =>
                  /\ ~is_constant(n.other, symbol)
                  /\ n.substep[1].tag # "ConstantRule"

C4_Witness ==
    /\ Constructed
    /\ rule.tag = "ConstantTimesRule"
    /\ rule.constant = function.args[2]
    /\ rule.other = function.args[1]

\* C5: a non-constant sum of n addends is an AddRule of n substeps, the i-th
\* being intsteps of the i-th addend; intmanually adds the substeps' results
\* in that order and the printer renders the substeps in that order.
C5_AddendOrder ==
    Constructed =>
        /\ \A c \in AllCalls :
              LET e == c[1]
                  n == c[2]
              IN  (e.func = "Add" /\ ~is_constant(e, symbol)) =>
                     /\ n.tag = "AddRule"
                     /\ Len(n.substeps) = Len(e.args)
                     /\ \A i \in 1..Len(e.args) :
                           n.substeps[i] = intsteps(e.args[i], symbol)
                     /\ IsExpr(intmanually(n)) =>
                           intmanually(n).args =
                             [i \in 1..Len(e.args) |->
                                 intmanually(intsteps(e.args[i], symbol))]
        /\ \A k \in 1..(Len(stack) - 1) :
              stack[k].rule.tag = "AddRule" =>
                 /\ stack[k].i \in 1..Len(stack[k].rule.substeps)
                 /\ stack[k + 1].rule = stack[k].rule.substeps[stack[k].i]
        /\ (function.func = "Add" /\ ~is_constant(function, symbol)) =>
              /\ IsPrefix(StepsBelow(lines, 0),
                          [i \in 1..Len(function.args) |->
                              intsteps(function.args[i], symbol)])
              /\ pc \in {"finalize", "done"} =>
                    Len(StepsBelow(lines, 0)) = Len(function.args)

C5_Witness ==
    /\ pc = "done"
    /\ rule.tag = "AddRule"
    /\ Len(rule.substeps) = 3
    /\ rule.substeps[1].tag = "PowerRule"
    /\ rule.substeps[2].tag = "ConstantRule"
    /\ rule.substeps[3].tag = "ConstantRule"
    /\ rule.substeps[2] # rule.substeps[3]

\* C6: for a tree without a PowerRule of exponent -1, intmanually returns a
\* closed form or None and raises nothing, also for AddRule and
\* ConstantTimesRule nodes above a DontKnowRule node.
C6_EvaluatorNeverFaults ==
    (Constructed /\ NoMinusOnePower(rule)) =>
        \A n \in Nodes(rule) :
            LET res == intmanually(n)
            IN  IsExpr(res) \/ res = None

\* C7: print_html_steps completes, and the document it returns ends with
\* exactly one step appending the constant of integration, right before
\* the document is closed, also for a tree that is or holds a DontKnowRule
\* (stated for the trees without a PowerRule of exponent -1).
C7_ConstantStepLast ==
    NoMinusOnePower(rule) =>
        /\ pc # "raised"
        /\ pc = "done" =>
              LET n == Len(document)
              IN  /\ n >= 5
                  /\ document[n].kind = "</ol>"
                  /\ document[n - 1].kind = "</li>"
                  /\ document[n - 2].kind = "math"
                  /\ document[n - 3].text = ConstantText
                  /\ document[n - 4].kind = "<li>"
                  /\ Cardinality({i \in 1..n : document[i].text = ConstantText}) = 1

\* C8: every node of the tree has the expression intsteps was called on as
\* its context and the variable of integration as its symbol.
C8_ContextAndSymbol ==
    Constructed =>
        \A c \in AllCalls : c[2].context = c[1] /\ c[2].symbol = symbol

\* C9: a substep is rendered one level above its caller, so the substeps of
\* one AddRule are all rendered at the same level; the level is back at the
\* value it had at the call whenever print_rule returns, the step it closes
\* being closed at that level; after the root has been rendered the level is
\* the initial level.
C9_LevelRestored ==
    /\ \A k \in 1..Len(stack) :
          /\ stack[k].at \in {"call", "return"} => level = stack[k].entry
          /\ k > 1 => stack[k].entry = stack[k - 1].entry + 1
          /\ k = 1 => stack[k].entry = 0
    /\ pc \in {"finalize", "done"} => level = 0
    /\ (stack # <<>> /\ Top.at = "return") =>
          lines[Len(lines)] = StepClose(Top.entry, Top.rule)

C9_Witness ==
    /\ pc = "print"
    /\ Len(stack) = 3
    /\ stack[1].rule.tag = "AddRule"
    /\ stack[1].i = 2
    /\ stack[2].rule.tag = "ConstantTimesRule"
    /\ Top.at = "return"

\* C10: for a DontKnowRule the printer appends the statement that the steps
\* are unknown and then a math block holding the un-evaluated integral of
\* the node's context with respect to the node's symbol.
C10_UnknownShowsIntegral ==
    \A i \in 1..Len(lines) :
        (lines[i].kind = "math" /\ lines[i].by.tag = "DontKnowRule") =>
            /\ i > 2
            /\ lines[i - 2].text = "Don't know the steps in finding this integral."
            /\ lines[i].math = Integral(lines[i].by.context, lines[i].by.symbol)

====
